---- MODULE Spec2Model ----
(***************************************************************************)
(* Model of accel's CUDA context handling (driver/context.rs) and of the   *)
(* memory copy / allocation entry points (memory/{mod,host,slice,array}.rs)*)
(*                                                                         *)
(* The native driver is modelled by what the CUDA driver API documents:    *)
(*   - every thread owns a stack of context handles; cuCtxGetCurrent       *)
(*     returns its top (or null), cuCtxCreate pushes the new context,      *)
(*     cuCtxPushCurrent pushes, cuCtxPopCurrent pops and fails on an empty *)
(*     stack, cuCtxDestroy pops the context when it is current to the      *)
(*     calling thread;                                                     *)
(*   - handles are never reused.                                           *)
(* A panic is modelled as a result value "Panic": the state keeps whatever *)
(* the handler had changed before the panic.                               *)
(***************************************************************************)
EXTENDS Integers, Sequences, FiniteSets, TLC

\* ---------------------------------------------------------------- bounds
MaxCtx == 2
MaxLen == 1

\* size_of::<T>() of the element type the tests use (u32 / i32)
ElemSize == 4

\* the two threads of tests::thread: the spawning one and the spawned one
Threads == {"A", "B"}
Null == 0
Handles == 1..MaxCtx

VARIABLES
  stack,      \* native driver: per-thread stack of context handles
  slot,       \* CONTEXT_STACK_LOCK: Option<CUcontext> per thread (Null = None)
  live,       \* handles of the Context values that have not been dropped
  created,    \* number of handles the driver has handed out
  rounds,     \* history: where each context is in create, (pop, push)* on its thread
  bufs,       \* the memory object held by each program variable (NoBuf: none)
  last        \* the last call: operation, thread, context, result, native calls

vars == <<stack, slot, live, created, rounds, bufs, last>>

\* ------------------------------------------------------- native driver
\* cuCtxGetCurrent: the top of the calling thread's stack, null when empty
cuCtxGetCurrent(s) == IF Len(s) = 0 THEN Null ELSE s[Len(s)]

\* the stack after cuCtxPopCurrent succeeded
cuCtxPopCurrent(s) == SubSeq(s, 1, Len(s) - 1)

\* cuCtxDestroy: the context is popped when it is current to the caller
cuCtxDestroy(s, h) == IF cuCtxGetCurrent(s) = h THEN cuCtxPopCurrent(s) ELSE s

\* --------------------------------------------------------- context.rs
\* thread_local!: the cell a thread reaches through CONTEXT_STACK_LOCK
get_lock_static(t) == "A"
get_lock(t) == t

NoView == [addr |-> "", len |-> 0]

Call(op, t, c, res, calls) ==
  [op |-> op, thr |-> t, ctx |-> c, res |-> res, calls |-> calls,
   native |-> "", dst |-> NoView, src |-> NoView, size |-> 0]

\* Context::assure_current as a predicate on the state
IsCurrent(t, c) == cuCtxGetCurrent(stack[t]) = c

\* history of the calls on a context that returned Ok on the thread that
\* created it: at "pushed" / "popped" while they follow create, (pop, push)*;
\* NoRound before the create, once they left that order and after the drop.
\* Calls on other threads do not count.
NoRound == [thr |-> "", at |-> ""]
Round(t, c, from, to) ==
  IF rounds[c].thr /= t THEN rounds
  ELSE [rounds EXCEPT ![c] = IF @.at = from THEN [@ EXCEPT !.at = to] ELSE NoRound]

\* the handle is somewhere on the native stack of the thread
OnStack(t, c) == \E i \in 1..Len(stack[t]) : stack[t][i] = c

Create(t, out) ==
  /\ created < MaxCtx
  /\ LET ptr == created + 1 IN
     CASE out = "err" ->
            /\ last' = Call("create", t, Null, "Err", <<"cuCtxCreate_v2">>)
            /\ UNCHANGED <<stack, slot, live, created, rounds, bufs>>
       [] out = "null" ->
            /\ last' = Call("create", t, Null, "Panic", <<"cuCtxCreate_v2">>)
            /\ UNCHANGED <<stack, slot, live, created, rounds, bufs>>
       [] OTHER ->
            /\ stack' = [stack EXCEPT ![t] = Append(@, ptr)]
            /\ slot' = [slot EXCEPT ![get_lock(t)] = ptr]
            /\ live' = live \cup {ptr}
            /\ created' = ptr
            /\ rounds' = [rounds EXCEPT ![ptr] = [thr |-> t, at |-> "pushed"]]
            /\ last' = Call("create", t, ptr, "Ok", <<"cuCtxCreate_v2">>)
            /\ UNCHANGED bufs

AssureCurrent(t, c) ==
  /\ c \in live
  /\ last' = Call("assure_current", t, c,
                  IF cuCtxGetCurrent(stack[t]) /= c
                    THEN "ContextIsNotCurrent" ELSE "Ok",
                  <<"cuCtxGetCurrent">>)
  /\ UNCHANGED <<stack, slot, live, created, rounds, bufs>>

Push_unguarded(t, c) ==
  /\ c \in live
  /\ stack' = [stack EXCEPT ![t] = Append(@, c)]
  /\ slot' = [slot EXCEPT ![get_lock(t)] = c]
  /\ last' = Call("push", t, c, "Ok", <<"cuCtxPushCurrent_v2">>)
  /\ rounds' = Round(t, c, "popped", "pushed")
  /\ UNCHANGED <<live, created, bufs>>

Push(t, c) ==
  /\ c \in live
  /\ IF slot[get_lock(t)] /= Null
       THEN /\ last' = Call("push", t, c, "ContextDuplicated", <<>>)
            /\ UNCHANGED <<stack, slot, live, created, rounds, bufs>>
       ELSE /\ stack' = [stack EXCEPT ![t] = Append(@, c)]
            /\ slot' = [slot EXCEPT ![get_lock(t)] = c]
                      /\ last' = Call("push", t, c, "Ok", <<"cuCtxPushCurrent_v2">>)
            /\ rounds' = Round(t, c, "popped", "pushed")
            /\ UNCHANGED <<live, created, bufs>>

\* Context::pop that forgets to empty the slot
Pop_slot_kept(t, c, nullOk) ==
  /\ c \in live
  /\ slot[get_lock(t)] /= Null /\ cuCtxGetCurrent(stack[t]) = c
  /\ stack' = [stack EXCEPT ![t] = cuCtxPopCurrent(@)]
  /\ rounds' = Round(t, c, "pushed", "popped")
  /\ last' = Call("pop", t, c, "Ok", <<"cuCtxPopCurrent_v2">>)
  /\ UNCHANGED <<slot, live, created, bufs>>

\* nullOk: what the driver does on an empty stack, an error or a null handle
Pop_unchecked(t, c, nullOk) ==
  /\ c \in live
  /\ CASE slot[get_lock(t)] = Null ->
            /\ last' = Call("pop", t, c, "Panic", <<>>)
            /\ UNCHANGED <<stack, slot, live, created, rounds, bufs>>
       [] slot[get_lock(t)] /= Null /\ Len(stack[t]) = 0 ->
            /\ last' = [Call("pop", t, c, IF nullOk THEN "Panic" ELSE "Err",
                             <<"cuCtxPopCurrent_v2">>)
                          EXCEPT !.native = IF nullOk THEN "null" ELSE "err"]
            /\ UNCHANGED <<stack, slot, live, created, rounds, bufs>>
       [] OTHER ->
            /\ stack' = [stack EXCEPT ![t] = cuCtxPopCurrent(@)]
            /\ slot' = [slot EXCEPT ![get_lock(t)] = Null]
            /\ last' = Call("pop", t, c, "Ok", <<"cuCtxPopCurrent_v2">>)
            /\ rounds' = Round(t, c, "pushed", "popped")
            /\ UNCHANGED <<live, created, bufs>>

Pop(t, c, nullOk) ==
  /\ c \in live
  /\ CASE slot[get_lock(t)] = Null ->
            /\ last' = Call("pop", t, c, "Panic", <<>>)
            /\ UNCHANGED <<stack, slot, live, created, rounds, bufs>>
       [] slot[get_lock(t)] /= Null /\ Len(stack[t]) = 0 ->
            /\ last' = [Call("pop", t, c, IF nullOk THEN "Panic" ELSE "Err",
                             <<"cuCtxPopCurrent_v2">>)
                          EXCEPT !.native = IF nullOk THEN "null" ELSE "err"]
            /\ UNCHANGED <<stack, slot, live, created, rounds, bufs>>
       [] OTHER ->
            LET ptr == cuCtxGetCurrent(stack[t]) IN
            /\ stack' = [stack EXCEPT ![t] = cuCtxPopCurrent(@)]
            /\ IF ptr = c
                 THEN /\ slot' = [slot EXCEPT ![get_lock(t)] = Null]
                      /\ rounds' = Round(t, c, "pushed", "popped")
                      /\ last' = Call("pop", t, c, "Ok", <<"cuCtxPopCurrent_v2">>)
                 ELSE /\ slot' = slot
                      /\ rounds' = rounds
                      /\ last' = Call("pop", t, c, "Panic", <<"cuCtxPopCurrent_v2">>)
            /\ UNCHANGED <<live, created, bufs>>

\* fails: the native cuCtxSynchronize reports an error
Sync_unguarded(t, c, fails) ==
  /\ c \in live
  /\ last' = Call("sync", t, c, IF fails THEN "Err" ELSE "Ok",
                  <<"cuCtxGetCurrent", "cuCtxSynchronize">>)
  /\ UNCHANGED <<stack, slot, live, created, rounds, bufs>>

Sync(t, c, fails) ==
  /\ c \in live
  /\ IF cuCtxGetCurrent(stack[t]) /= c
       THEN last' = Call("sync", t, c, "ContextIsNotCurrent", <<"cuCtxGetCurrent">>)
       ELSE last' = Call("sync", t, c, IF fails THEN "Err" ELSE "Ok",
                         <<"cuCtxGetCurrent", "cuCtxSynchronize">>)
  /\ UNCHANGED <<stack, slot, live, created, rounds, bufs>>

\* Drop for Context, run by the thread that owns the value at that time
Drop(t, c) ==
  /\ c \in live
  /\ live' = live \ {c}
  /\ stack' = [stack EXCEPT ![t] = cuCtxDestroy(@, c)]
  /\ rounds' = [rounds EXCEPT ![c] = NoRound]
  /\ last' = Call("drop", t, c, "Ok", <<"cuCtxDestroy_v2">>)
  /\ UNCHANGED <<slot, created, bufs>>

\* ------------------------------------------------------ memory/mod.rs
MemoryType == {"Host", "Registered", "PageLocked", "Device", "Array"}

\* element values; a fresh allocation holds arbitrary ones
Val == {0, 1}

\* the program variables that hold memory objects; the name stands for the
\* head address of the object
Slots == {"a", "b"}

\* the variables of a round trip: source, intermediate and fresh destination
Cells == {"a", "b", "c"}

NoDim == [shape |-> "", w |-> 0, h |-> 0, d |-> 0]
NoBuf == [kind |-> "", len |-> 0, ctx |-> Null, data |-> <<>>, dim |-> NoDim]

\* Dimension: the extents each shape has, missing axes count as 1
Shapes == {"Ix1", "Ix2", "Ix3", "Ix1Layered", "Ix2Layered"}
HasHeight(dim) == dim.shape \in {"Ix2", "Ix3", "Ix2Layered"}
HasDepth(dim) == dim.shape \in {"Ix3", "Ix1Layered", "Ix2Layered"}
width(dim) == dim.w
height(dim) == IF HasHeight(dim) THEN dim.h ELSE 1
depth(dim) == IF HasDepth(dim) THEN dim.d ELSE 1
DimLen(dim) == width(dim) * height(dim) * depth(dim)

\* Dimension::as_descriptor: extents map directly, a missing axis is 0, the
\* layer count goes to Depth with the layered flag
as_descriptor(dim) ==
  [Width |-> dim.w,
   Height |-> IF HasHeight(dim) THEN dim.h ELSE 0,
   Depth |-> IF HasDepth(dim) THEN dim.d ELSE 0,
   Layered |-> dim.shape \in {"Ix1Layered", "Ix2Layered"}]

\* cuArray3DCreate accepts a descriptor of a 1D, 2D, 3D or layered array
cuArray3DCreateAccepts(desc) ==
  /\ desc.Width > 0
  /\ \/ desc.Height = 0 /\ desc.Depth = 0
     \/ desc.Height > 0 /\ desc.Depth = 0 /\ ~desc.Layered
     \/ desc.Height > 0 /\ desc.Depth > 0
     \/ desc.Height = 0 /\ desc.Depth > 0 /\ desc.Layered

\* the Dimension values the model allocates arrays with
Dims ==
  {dim \in [shape : {"Ix1", "Ix2"}, w : {0, MaxLen}, h : 0..1, d : 0..1] :
     /\ ~HasHeight(dim) => dim.h = 0
     /\ ~HasDepth(dim) => dim.d = 0}

\* a memory object as the copy functions see it, head address and length:
\* the whole object, or the empty slice at its head
Views(x) ==
  IF bufs[x] = NoBuf THEN {}
  ELSE IF bufs[x].kind = "Array" THEN {[addr |-> x, len |-> bufs[x].len]}
  ELSE {[addr |-> x, len |-> n] : n \in {0, bufs[x].len}}
AllViews == UNION {Views(x) : x \in Slots}

head_addr(v) == v.addr
num_elem(v) == v.len
byte_size(v) == v.len * ElemSize
memory_type(v) == bufs[v.addr].kind
try_get_context(v) == bufs[v.addr].ctx

\* guard_context / contexted_call!: the context is made current around the
\* native calls of the body
contexted(calls) == <<"cuCtxPushCurrent_v2">> \o calls \o <<"cuCtxPopCurrent_v2">>

\* the native stack of the thread while a context guard is alive
guard_context(s, c) == Append(s, c)

MemCall(op, t, c, res, calls, d, s, size) ==
  [Call(op, t, c, res, calls) EXCEPT !.dst = d, !.src = s, !.size = size]

\* a copy that stops one element short
Copied_short(ddata, sdata, n) ==
  [i \in 1..Len(ddata) |-> IF i < n THEN sdata[i] ELSE ddata[i]]

\* the destination contents after n elements were copied from the source
Copied(ddata, sdata, n) ==
  [i \in 1..Len(ddata) |-> IF i <= n THEN sdata[i] ELSE ddata[i]]

CopyInto(d, s) ==
  bufs' = [bufs EXCEPT ![d.addr].data =
             Copied(@, bufs[s.addr].data, d.len)]

\* ----------------------------------------------------- allocation
\* the thread that runs the memory operations
MemThread == "A"

\* a Vec / slice the caller provides: plain host memory, no context
HostVec(x, size, data) ==
  /\ bufs[x] = NoBuf
  /\ bufs' = [bufs EXCEPT ![x] =
       [kind |-> "Host", len |-> size, ctx |-> Null, data |-> data, dim |-> NoDim]]
  /\ last' = MemCall("vec", MemThread, Null, "Ok", <<>>, [addr |-> x, len |-> size], NoView, size)
  /\ UNCHANGED <<stack, slot, live, created, rounds>>

Allocated(x, kind, c, size, data, dim) ==
  bufs' = [bufs EXCEPT ![x] =
     [kind |-> kind, len |-> size, ctx |-> c, data |-> data, dim |-> dim]]

\* PageLockedMemory::new without the size assertion
PageLockedNew_unchecked(t, x, c, size, data, fails) ==
  /\ bufs[x] = NoBuf /\ c \in live
  /\ IF fails
       THEN /\ last' = MemCall("PageLockedMemory::new", t, c, "Panic",
                               contexted(<<"cuMemAllocHost_v2">>), NoView, NoView, size)
            /\ UNCHANGED bufs
       ELSE /\ Allocated(x, "PageLocked", c, size, data, NoDim)
            /\ last' = MemCall("PageLockedMemory::new", t, c, "Ok",
                               contexted(<<"cuMemAllocHost_v2">>),
                               [addr |-> x, len |-> size], NoView, size)
  /\ UNCHANGED <<stack, slot, live, created, rounds>>

\* fails: cuMemAllocHost_v2 reports an error
PageLockedNew(t, x, c, size, data, fails) ==
  /\ bufs[x] = NoBuf /\ c \in live
  /\ CASE size = 0 ->
            /\ last' = [MemCall("PageLockedMemory::new", t, c, "Panic", <<>>,
                                NoView, NoView, size)
                          EXCEPT !.native = "Zero-sized malloc is forbidden"]
            /\ UNCHANGED bufs
       [] size > 0 /\ fails ->
            /\ last' = MemCall("PageLockedMemory::new", t, c, "Panic",
                               contexted(<<"cuMemAllocHost_v2">>), NoView, NoView, size)
            /\ UNCHANGED bufs
       [] OTHER ->
            /\ Allocated(x, "PageLocked", c, size, data, NoDim)
            /\ last' = MemCall("PageLockedMemory::new", t, c, "Ok",
                               contexted(<<"cuMemAllocHost_v2">>),
                               [addr |-> x, len |-> size], NoView, size)
  /\ UNCHANGED <<stack, slot, live, created, rounds>>

\* DeviceMemory::new, as the spec and tests::device_new_zero describe it
DeviceNew(t, x, c, size, data, fails) ==
  /\ bufs[x] = NoBuf /\ c \in live
  /\ CASE size = 0 ->
            /\ last' = [MemCall("DeviceMemory::new", t, c, "Panic", <<>>,
                                NoView, NoView, size)
                          EXCEPT !.native = "Zero-sized malloc is forbidden"]
            /\ UNCHANGED bufs
       [] size > 0 /\ fails ->
            /\ last' = MemCall("DeviceMemory::new", t, c, "Panic",
                               contexted(<<"cuMemAlloc_v2">>), NoView, NoView, size)
            /\ UNCHANGED bufs
       [] OTHER ->
            /\ Allocated(x, "Device", c, size, data, NoDim)
            /\ last' = MemCall("DeviceMemory::new", t, c, "Ok",
                               contexted(<<"cuMemAlloc_v2">>),
                               [addr |-> x, len |-> size], NoView, size)
  /\ UNCHANGED <<stack, slot, live, created, rounds>>

\* the elements the native array of a descriptor stores
ArrayStorage(desc) ==
  desc.Width * (IF desc.Height = 0 THEN 1 ELSE desc.Height)
             * (IF desc.Depth = 0 THEN 1 ELSE desc.Depth)

\* Array::uninitialized; fails: the driver is out of memory
ArrayUninitialized(t, x, c, dim, data, fails) ==
  /\ bufs[x] = NoBuf /\ c \in live
  /\ LET desc == as_descriptor(dim) IN
     IF fails \/ ~cuArray3DCreateAccepts(desc)
       THEN /\ last' = [MemCall("Array::uninitialized", t, c, "Panic",
                                contexted(<<"cuArray3DCreate_v2">>),
                                NoView, NoView, DimLen(dim))
                          EXCEPT !.native = "err"]
            /\ UNCHANGED bufs
       ELSE /\ Allocated(x, "Array", c, DimLen(dim), data, dim)
            /\ last' = [MemCall("Array::uninitialized", t, c, "Ok",
                                contexted(<<"cuArray3DCreate_v2">>),
                                [addr |-> x, len |-> DimLen(dim)], NoView, DimLen(dim))
                          EXCEPT !.native = "ok"]
  /\ UNCHANGED <<stack, slot, live, created, rounds>>

\* ------------------------------------------------------- destruction
\* the object leaves its program variable; the outcome of the release call
\* is kept in the native field of the call record
Released(op, t, x, calls, logged) ==
  /\ bufs' = [bufs EXCEPT ![x] = NoBuf]
  /\ last' = [MemCall(op, t, bufs[x].ctx, "Ok", calls,
                      [addr |-> x, len |-> bufs[x].len], NoView, bufs[x].len)
                EXCEPT !.native = IF logged THEN "logged" ELSE "ok"]
  /\ UNCHANGED <<stack, slot, live, created, rounds>>

\* Drop for PageLockedMemory with the result of cuMemFreeHost unwrapped
PageLockedDrop_unwrap(t, x, fails) ==
  /\ bufs[x].kind = "PageLocked"
  /\ IF fails
       THEN /\ last' = MemCall("PageLockedMemory::drop", t, bufs[x].ctx, "Panic",
                               <<"cuMemFreeHost">>,
                               [addr |-> x, len |-> bufs[x].len], NoView, bufs[x].len)
            /\ UNCHANGED <<stack, slot, live, created, rounds, bufs>>
       ELSE Released("PageLockedMemory::drop", t, x, <<"cuMemFreeHost">>, FALSE)

\* Drop for PageLockedMemory (memory/host.rs); fails: cuMemFreeHost reports
\* an error, which is logged
PageLockedDrop(t, x, fails) ==
  /\ bufs[x].kind = "PageLocked"
  /\ Released("PageLockedMemory::drop", t, x, <<"cuMemFreeHost">>, fails)

\* Drop for Array (memory/array.rs); fails: the contexted cuArrayDestroy
\* reports an error, which is logged
ArrayDrop(t, x, fails) ==
  /\ bufs[x].kind = "Array"
  /\ Released("Array::drop", t, x, contexted(<<"cuArrayDestroy">>), fails)

\* ------------------------------------------------------------ copies
Panics(op, t, calls, d, s) ==
  /\ last' = MemCall(op, t, Null, "Panic", calls, d, s, 0)
  /\ UNCHANGED <<stack, slot, live, created, rounds, bufs>>

\* unimplemented!(): a panic, no native call
Unimplemented(op, t, d, s) ==
  /\ last' = [MemCall(op, t, Null, "Panic", <<>>, d, s, 0)
                EXCEPT !.native = "unimplemented"]
  /\ UNCHANGED <<stack, slot, live, created, rounds, bufs>>

\* a copy that returned; c: the context that was made current around the
\* transfer (Null: none), pushed by the guard and popped when the guard is
\* dropped
Copies(op, t, c, calls, d, s) ==
  /\ CopyInto(d, s)
  /\ last' = MemCall(op, t, c, "Ok", calls, d, s, 0)
  /\ stack' = [stack EXCEPT ![t] =
                 IF c = Null THEN @ ELSE cuCtxPopCurrent(guard_context(@, c))]
  /\ UNCHANGED <<slot, live, created, rounds>>

\* MemoryMut::copy_from, the default body (memory/mod.rs)
copy_from(t, d, s) ==
  CASE byte_size(d) /= byte_size(s) ->
         Panics("MemoryMut::copy_from", t, <<>>, d, s)
    [] byte_size(d) = byte_size(s)
         /\ memory_type(d) = "Host" /\ memory_type(s) = "Host" ->
         Copies("MemoryMut::copy_from", t, Null, <<>>, d, s)
    [] OTHER ->
         Unimplemented("MemoryMut::copy_from", t, d, s)

\* copy_to_host (memory/host.rs); fails: cuMemcpyDtoH_v2 reports an error
copy_to_host(t, d, s, fails) ==
  /\ memory_type(d) \in {"Host", "Registered", "PageLocked"}
  /\ CASE head_addr(d) = head_addr(s) ->
            Panics("copy_to_host", t, <<>>, d, s)
       [] head_addr(d) /= head_addr(s) /\ byte_size(d) /= byte_size(s) ->
            Panics("copy_to_host", t, <<>>, d, s)
       [] OTHER ->
            CASE memory_type(s) \in {"Host", "Registered", "PageLocked"} ->
                   Copies("copy_to_host", t, Null, <<>>, d, s)
              [] memory_type(s) = "Device" ->
                   LET d_ctx == try_get_context(d)
                       s_ctx == try_get_context(s)
                   IN CASE d_ctx /= Null /\ s_ctx /= Null /\ d_ctx /= s_ctx ->
                             Panics("copy_to_host", t, <<>>, d, s)
                        [] d_ctx /= Null /\ (s_ctx = Null \/ s_ctx = d_ctx) ->
                             IF fails
                               THEN Panics("copy_to_host", t,
                                           contexted(<<"cuMemcpyDtoH_v2">>), d, s)
                               ELSE Copies("copy_to_host", t, d_ctx,
                                           contexted(<<"cuMemcpyDtoH_v2">>), d, s)
                        [] d_ctx = Null /\ s_ctx /= Null ->
                             IF fails
                               THEN Panics("copy_to_host", t,
                                           contexted(<<"cuMemcpyDtoH_v2">>), d, s)
                               ELSE Copies("copy_to_host", t, s_ctx,
                                           contexted(<<"cuMemcpyDtoH_v2">>), d, s)
                        [] OTHER ->
                             IF fails
                               THEN Panics("copy_to_host", t, <<"cuMemcpyDtoH_v2">>, d, s)
                               ELSE Copies("copy_to_host", t, Null,
                                           <<"cuMemcpyDtoH_v2">>, d, s)
              [] OTHER ->
                   Unimplemented("copy_to_host", t, d, s)

\* get_context (memory/slice.rs): the context the pointer belongs to
get_context(v) == bufs[v.addr].ctx

\* Memcpy<[T]> for [T] without the length assertion: the native copy moves
\* the destination's byte count, copy_from_slice still refuses
slice_copy_from_unchecked(t, d, s, fails) ==
  /\ memory_type(d) /= "Array" /\ memory_type(s) /= "Array"
  /\ IF head_addr(d) = head_addr(s)
       THEN Panics("[T]::copy_from", t, <<>>, d, s)
       ELSE LET ctx == IF get_context(d) /= Null THEN get_context(d) ELSE get_context(s)
            IN IF ctx /= Null
                 THEN IF fails
                        THEN Panics("[T]::copy_from", t, contexted(<<"cuMemcpy">>), d, s)
                        ELSE /\ bufs' = [bufs EXCEPT ![d.addr].data =
                                  [i \in 1..Len(@) |->
                                     IF i <= d.len /\ i <= Len(bufs[s.addr].data)
                                       THEN bufs[s.addr].data[i] ELSE @[i]]]
                             /\ last' = MemCall("[T]::copy_from", t, ctx, "Ok",
                                                contexted(<<"cuMemcpy">>), d, s, 0)
                             /\ UNCHANGED <<stack, slot, live, created, rounds>>
                 ELSE IF num_elem(d) = num_elem(s)
                        THEN Copies("[T]::copy_from", t, Null, <<>>, d, s)
                        ELSE Panics("[T]::copy_from", t, <<>>, d, s)

\* Memcpy<[T]> for [T] (memory/slice.rs); fails: cuMemcpy reports an error
slice_copy_from(t, d, s, fails) ==
  /\ memory_type(d) /= "Array" /\ memory_type(s) /= "Array"
  /\ CASE head_addr(d) = head_addr(s) ->
            Panics("[T]::copy_from", t, <<>>, d, s)
       [] head_addr(d) /= head_addr(s) /\ num_elem(d) /= num_elem(s) ->
            Panics("[T]::copy_from", t, <<>>, d, s)
       [] OTHER ->
            LET ctx == IF get_context(d) /= Null THEN get_context(d) ELSE get_context(s)
            IN IF ctx /= Null
                 THEN IF fails
                        THEN Panics("[T]::copy_from", t, contexted(<<"cuMemcpy">>), d, s)
                        ELSE Copies("[T]::copy_from", t, ctx, contexted(<<"cuMemcpy">>), d, s)
                 ELSE Copies("[T]::copy_from", t, Null, <<>>, d, s)

\* CUDA_MEMCPY3D as both array copies fill it: the extents of the Dimension,
\* every other field left at Default::default(), so the pitch and the slice
\* height of the linear side are 0
memcpy3d_param(dim) ==
  [WidthInBytes |-> width(dim) * ElemSize,
   Height |-> height(dim),
   Depth |-> depth(dim),
   Pitch |-> 0,
   SliceHeight |-> 0]

\* the elements cuMemcpy3D moves: column x of row y of slice z
Texels(param) ==
  {p \in (0..(param.WidthInBytes \div ElemSize) - 1) \X (0..param.Height - 1)
           \X (0..param.Depth - 1) : TRUE}

\* where an element lies in the array, and in the linear memory: row y of
\* slice z starts (z * SliceHeight + y) * Pitch bytes after the head address
Row(param, p) == p[3] * param.Height + p[2]
ArrayIndex(param, p) == Row(param, p) * (param.WidthInBytes \div ElemSize) + p[1] + 1
LinearIndex(param, p) ==
  ((p[3] * param.SliceHeight + p[2]) * param.Pitch) \div ElemSize + p[1] + 1

\* cuMemcpy3D from linear memory into an array
cuMemcpy3D_to_array(adata, ldata, param) ==
  [i \in 1..Len(adata) |->
     LET hits == {p \in Texels(param) : ArrayIndex(param, p) = i}
     IN IF hits = {} THEN adata[i]
        ELSE ldata[LinearIndex(param, CHOOSE p \in hits : TRUE)]]

\* cuMemcpy3D from an array into linear memory; rows are written in order,
\* so of the rows that land on one address the last one stays
cuMemcpy3D_from_array(ldata, adata, param) ==
  [j \in 1..Len(ldata) |->
     LET hits == {p \in Texels(param) : LinearIndex(param, p) = j}
     IN IF hits = {} THEN ldata[j]
        ELSE adata[ArrayIndex(param,
                     CHOOSE p \in hits :
                       \A q \in hits : Row(param, q) <= Row(param, p))]]

\* an array copy that returned, under the context of the array
Copies3D(op, t, c, d, s, data) ==
  /\ bufs' = [bufs EXCEPT ![d.addr].data = data]
  /\ last' = MemCall(op, t, c, "Ok", contexted(<<"cuMemcpy3D_v2">>), d, s, 0)
  /\ stack' = [stack EXCEPT ![t] = cuCtxPopCurrent(guard_context(@, c))]
  /\ UNCHANGED <<slot, live, created, rounds>>

\* Memcpy<[T]> for Array (memory/array.rs); fails: cuMemcpy3D_v2 reports an error
array_copy_from(t, d, s, fails) ==
  /\ memory_type(d) = "Array" /\ memory_type(s) /= "Array"
  /\ CASE head_addr(d) = head_addr(s) ->
            Panics("Array::copy_from", t, <<>>, d, s)
       [] head_addr(d) /= head_addr(s) /\ num_elem(d) /= num_elem(s) ->
            Panics("Array::copy_from", t, <<>>, d, s)
       [] OTHER ->
            IF fails
              THEN Panics("Array::copy_from", t, contexted(<<"cuMemcpy3D_v2">>), d, s)
              ELSE Copies3D("Array::copy_from", t, try_get_context(d), d, s,
                            cuMemcpy3D_to_array(bufs[d.addr].data, bufs[s.addr].data,
                                                memcpy3d_param(bufs[d.addr].dim)))

\* Memcpy<Array> for [T] (memory/array.rs); fails: cuMemcpy3D_v2 reports an error
slice_copy_from_array(t, d, s, fails) ==
  /\ memory_type(d) /= "Array" /\ memory_type(s) = "Array"
  /\ CASE head_addr(d) = head_addr(s) ->
            Panics("[T]::copy_from(Array)", t, <<>>, d, s)
       [] head_addr(d) /= head_addr(s) /\ num_elem(d) /= num_elem(s) ->
            Panics("[T]::copy_from(Array)", t, <<>>, d, s)
       [] OTHER ->
            IF fails
              THEN Panics("[T]::copy_from(Array)", t, contexted(<<"cuMemcpy3D_v2">>), d, s)
              ELSE Copies3D("[T]::copy_from(Array)", t, try_get_context(s), d, s,
                            cuMemcpy3D_from_array(bufs[d.addr].data, bufs[s.addr].data,
                                                  memcpy3d_param(bufs[s.addr].dim)))

\* ------------------------------------------------------ specification
Init ==
  /\ stack = [t \in Threads |-> <<>>]
  /\ slot = [t \in Threads |-> Null]
  /\ live = {}
  /\ created = 0
  /\ rounds = [h \in Handles |-> NoRound]
  /\ bufs = [x \in Cells |-> NoBuf]
  /\ last = Call("init", "A", Null, "Ok", <<>>)

Next ==
  \/ \E t \in Threads, out \in {"ok", "err", "null"} : Create(t, out)
  \/ \E t \in Threads, c \in Handles : AssureCurrent(t, c)
  \/ \E t \in Threads, c \in Handles : Push(t, c)
  \/ \E t \in Threads, c \in Handles :
       \E nullOk \in IF Len(stack[t]) = 0 THEN BOOLEAN ELSE {TRUE} : Pop(t, c, nullOk)
  \/ \E t \in Threads, c \in Handles :
       \E fails \in IF IsCurrent(t, c) THEN BOOLEAN ELSE {FALSE} : Sync(t, c, fails)
  \/ \E t \in Threads, c \in Handles : Drop(t, c)

Spec == Init /\ [][Next]_vars

\* the memory operations, run by the thread that created their contexts
\* (two contexts, so that two memory objects can belong to different ones)
Sizes == {0, MaxLen}
Datas(n) == [1..n -> Val]

NextMem ==
  \/ created \in {0, 1} /\ Create(MemThread, "ok")
  \/ \E x \in Slots, n \in Sizes : \E data \in Datas(n) : HostVec(x, n, data)
  \/ \E x \in Slots, c \in Handles, n \in Sizes, fails \in BOOLEAN :
       \E data \in Datas(n) : PageLockedNew(MemThread, x, c, n, data, fails)
  \/ \E x \in Slots, c \in Handles, n \in Sizes, fails \in BOOLEAN :
       \E data \in Datas(n) : DeviceNew(MemThread, x, c, n, data, fails)
  \/ \E x \in Slots, c \in Handles, dim \in Dims, fails \in BOOLEAN :
       \E data \in Datas(ArrayStorage(as_descriptor(dim))) :
         ArrayUninitialized(MemThread, x, c, dim, data, fails)
  \/ \E x \in Slots, fails \in BOOLEAN : PageLockedDrop(MemThread, x, fails)
  \/ \E x \in Slots, fails \in BOOLEAN : ArrayDrop(MemThread, x, fails)
  \/ \E d \in AllViews, s \in AllViews : copy_from(MemThread, d, s)
  \/ \E d \in AllViews, s \in AllViews, fails \in BOOLEAN :
       copy_to_host(MemThread, d, s, fails)
  \/ \E d \in AllViews, s \in AllViews, fails \in BOOLEAN :
       slice_copy_from(MemThread, d, s, fails)
  \/ \E d \in AllViews, s \in AllViews, fails \in BOOLEAN :
       array_copy_from(MemThread, d, s, fails)
  \/ \E d \in AllViews, s \in AllViews, fails \in BOOLEAN :
       slice_copy_from_array(MemThread, d, s, fails)

SpecMem == Init /\ [][NextMem]_vars

\* ------------------------------------------------------- round trips
\* The round trips of the memory tests: a source "a" filled with one value,
\* an intermediate "b" and a fresh destination "c" of the same element
\* count, then b.copy_from(&a) and, once that returned, c.copy_from(&b).
Linear == {"Host", "PageLocked", "Device"}
Fill(n, v) == [i \in 1..n |-> v]
Whole(x) == [addr |-> x, len |-> bufs[x].len]

\* one Dimension of every shape; all but Ix1 have more than one row
TripDims ==
  {[shape |-> "Ix1", w |-> MaxLen, h |-> 0, d |-> 0],
   [shape |-> "Ix2", w |-> MaxLen, h |-> 2, d |-> 0],
   [shape |-> "Ix3", w |-> MaxLen, h |-> 2, d |-> 1],
   [shape |-> "Ix1Layered", w |-> MaxLen, h |-> 0, d |-> 2],
   [shape |-> "Ix2Layered", w |-> MaxLen, h |-> 1, d |-> 2]}
TripSizes == (1..MaxLen) \cup {DimLen(dim) : dim \in TripDims}

LinearNew(x, kind, c, n, data) ==
  CASE kind = "Host" -> HostVec(x, n, data)
    [] kind = "PageLocked" -> PageLockedNew(MemThread, x, c, n, data, FALSE)
    [] OTHER -> DeviceNew(MemThread, x, c, n, data, FALSE)

\* from_elem: the source, every element equal to v
TripSource(kind, c, n, v) ==
  /\ bufs["a"] = NoBuf
  /\ LinearNew("a", kind, c, n, Fill(n, v))

\* the intermediate buffer: a linear one with as many elements as the source
TripLinear(kind, c, data) ==
  /\ bufs["a"] /= NoBuf
  /\ LinearNew("b", kind, c, bufs["a"].len, data)

\* the intermediate Array, for a page-locked or device source of dim.len()
\* elements
TripArray(c, dim, data) ==
  /\ bufs["a"].kind \in {"PageLocked", "Device"}
  /\ DimLen(dim) = bufs["a"].len
  /\ ArrayUninitialized(MemThread, "b", c, dim, data, FALSE)

\* the fresh destination: the kind and the element count of the source
TripFresh(c, data) ==
  /\ bufs["a"] /= NoBuf
  /\ LinearNew("c", bufs["a"].kind, c, bufs["a"].len, data)

\* d.copy_from(&s) as the types of d and s resolve it; a page-locked
\* destination also has the MemoryMut::copy_from that runs copy_to_host
TripCopy(d, s, fails) ==
  CASE bufs[d].kind = "Array" -> array_copy_from(MemThread, Whole(d), Whole(s), fails)
    [] bufs[s].kind = "Array" -> slice_copy_from_array(MemThread, Whole(d), Whole(s), fails)
    [] OTHER -> \/ slice_copy_from(MemThread, Whole(d), Whole(s), fails)
                \/ /\ bufs[d].kind = "PageLocked"
                   /\ copy_to_host(MemThread, Whole(d), Whole(s), fails)

TripForth(fails) ==
  /\ \A x \in Cells : bufs[x] /= NoBuf
  /\ last.dst.addr \in {"b", "c"} /\ last.src = NoView
  /\ TripCopy("b", "a", fails)

TripBack(fails) ==
  /\ last.res = "Ok" /\ last.dst.addr = "b" /\ last.src.addr = "a"
  /\ TripCopy("c", "b", fails)

NextTrip ==
  \/ created = 0 /\ Create(MemThread, "ok")
  \/ \E kind \in Linear, c \in Handles, n \in TripSizes, v \in Val :
       TripSource(kind, c, n, v)
  \/ \E kind \in Linear, c \in Handles :
       \E data \in Datas(bufs["a"].len) : TripLinear(kind, c, data)
  \/ \E c \in Handles, dim \in TripDims :
       \E data \in Datas(DimLen(dim)) : TripArray(c, dim, data)
  \/ \E c \in Handles : \E data \in Datas(bufs["a"].len) : TripFresh(c, data)
  \/ \E fails \in BOOLEAN : TripForth(fails)
  \/ \E fails \in BOOLEAN : TripBack(fails)

SpecTrip == Init /\ [][NextTrip]_vars

\* -------------------------------------------------- claims on Context
\* C1: right after Context::create returned Ok on a thread, the new context
\* is current there (assure_current succeeds); a push on a thread whose slot
\* is occupied returns ContextDuplicated and changes neither the slot nor
\* the native stack; and an occupied slot is only emptied by a pop that
\* returns Ok on that thread, so the push fails until such a pop.
C1_CreateThenPushFails ==
  /\ [](last.op = "create" /\ last.res = "Ok"
          => IsCurrent(last.thr, last.ctx) /\ slot[last.thr] = last.ctx)
  /\ [][last'.op = "push" /\ slot[last'.thr] /= Null
          => last'.res = "ContextDuplicated" /\ slot' = slot /\ stack' = stack]_vars
  /\ [][\A t \in Threads : slot[t] /= Null /\ slot'[t] = Null
          => last'.op = "pop" /\ last'.thr = t /\ last'.res = "Ok"]_vars

C1_Witness ==
  /\ last.op = "push" /\ last.res = "ContextDuplicated"
  /\ rounds[last.ctx] = [thr |-> last.thr, at |-> "pushed"]
  /\ slot[last.thr] = last.ctx
  /\ IsCurrent(last.thr, last.ctx)

\* C2: while the calls on a context follow create, (pop, push)* on the
\* thread that created it, every pop that returns Ok leaves the context not
\* current there (assure_current fails) with the slot empty, a push of the
\* same context that directly follows is accepted, and every push that
\* returns Ok leaves the context current (assure_current succeeds); this
\* holds whatever other contexts the thread creates, pushes, pops or drops.
InRound(at) ==
  /\ last.res = "Ok"
  /\ rounds[last.ctx] = [thr |-> last.thr, at |-> at]

C2_PopThenPush ==
  /\ [](last.op = "pop" /\ InRound("popped")
          => ~IsCurrent(last.thr, last.ctx) /\ slot[last.thr] = Null)
  /\ [](last.op = "push" /\ InRound("pushed")
          => IsCurrent(last.thr, last.ctx))
  /\ [][last.op = "pop" /\ InRound("popped")
          /\ last'.op = "push" /\ last'.thr = last.thr /\ last'.ctx = last.ctx
          => last'.res = "Ok" /\ rounds'[last.ctx].at = "pushed"]_vars

\* a pop in a later round, with another context on the thread's stack
C2_Witness ==
  /\ last.op = "pop" /\ InRound("popped")
  /\ \E h \in live \ {last.ctx} : OnStack(last.thr, h)
  /\ ~IsCurrent(last.thr, last.ctx)

\* C3: a context enters the native stack of a thread only through a create
\* or a push that this thread itself executes on it, so a context created on
\* thread A is not current on thread B (assure_current fails there) as long
\* as B has not pushed it; and a call executed on one thread leaves the slot
\* and the native stack of every other thread unchanged.
C3_ThreadLocal ==
  /\ [](last.op = "create" /\ last.res = "Ok"
          => \A t \in Threads \ {last.thr} : ~OnStack(t, last.ctx))
  /\ [][stack' /= stack => \A t \in Threads, h \in Handles :
          OnStack(t, h)' /\ ~OnStack(t, h)
            => /\ last'.thr = t /\ last'.ctx = h /\ last'.res = "Ok"
               /\ last'.op = IF h > created THEN "create" ELSE "push"]_vars
  /\ [](last.op = "assure_current" /\ ~OnStack(last.thr, last.ctx)
          => last.res = "ContextIsNotCurrent")
  /\ [][\A t \in Threads : last'.thr /= t
          => slot'[t] = slot[t] /\ stack'[t] = stack[t]]_vars

C3_Witness ==
  /\ last.op = "assure_current" /\ last.res = "ContextIsNotCurrent"
  /\ rounds[last.ctx].thr \notin {"", last.thr}
  /\ IsCurrent(rounds[last.ctx].thr, last.ctx)
  /\ slot[last.thr] /= Null

\* C4: the native context stack of a thread never holds more than one entry
\* (at most one Context is pushed and not popped per thread).
C4_AtMostOneCurrent == \A t \in Threads : Len(stack[t]) <= 1

C6_SyncRequiresCurrent ==
  last.op = "sync" =>
    /\ (~IsCurrent(last.thr, last.ctx)
          => last.res = "ContextIsNotCurrent" /\ last.calls = <<"cuCtxGetCurrent">>)
    /\ (\E i \in 1..Len(last.calls) : last.calls[i] = "cuCtxSynchronize")
          => /\ IsCurrent(last.thr, last.ctx)
             /\ last.calls = <<"cuCtxGetCurrent", "cuCtxSynchronize">>

C6_Witness ==
  /\ last.op = "sync" /\ last.res = "ContextIsNotCurrent"
  /\ slot[last.thr] /= Null

\* C16: on every thread the slot agrees with the native driver state: the
\* slot holds the handle that is the native current context of the thread,
\* it is empty exactly when the native stack of the thread is empty, and it
\* never holds the handle of a dropped Context.
C16_SlotAgreesWithDriver ==
  \A t \in Threads :
    /\ slot[t] = cuCtxGetCurrent(stack[t])
    /\ slot[t] /= Null => slot[t] \in live

\* C17: a pop that does not return Ok (it panics or returns Err) leaves the
\* slot and the native stack of the thread as they were before the call.
C17_PopAllOrNothing ==
  [][last'.op = "pop" /\ last'.res /= "Ok"
       => slot' = slot /\ stack' = stack]_vars

\* --------------------------------------------------- claims on memory
CopyOps == {"MemoryMut::copy_from", "copy_to_host", "[T]::copy_from",
            "Array::copy_from", "[T]::copy_from(Array)"}

\* C7: PageLockedMemory::new and DeviceMemory::new with size 0 panic with
\* "Zero-sized malloc is forbidden", issue no context activation and no
\* native allocation call, and allocate nothing, for every context.
C7_ZeroSizedMallocPanics ==
  /\ [](last.op \in {"PageLockedMemory::new", "DeviceMemory::new"} /\ last.size = 0
          => /\ last.res = "Panic"
             /\ last.native = "Zero-sized malloc is forbidden"
             /\ last.calls = <<>>)
  /\ [][last'.op \in {"PageLockedMemory::new", "DeviceMemory::new"} /\ last'.size = 0
          => bufs' = bufs]_vars

C7_Witness ==
  /\ last.op = "PageLockedMemory::new" /\ last.size = 0
  /\ last.ctx \in live
  /\ last.res = "Panic"

\* C8: Array::uninitialized with a Dimension of zero elements panics and
\* does not issue the native cuArray3DCreate_v2 call.
C8_ZeroArrayNeverNative ==
  last.op = "Array::uninitialized" /\ last.size = 0
    => /\ last.res = "Panic"
       /\ \A i \in 1..Len(last.calls) : last.calls[i] /= "cuArray3DCreate_v2"

\* C9: a copy whose destination and source byte sizes differ panics, issues
\* no native call and writes nothing, at every copy entry point and for
\* every pairing of kinds.
C9_SizeMismatchPanics ==
  /\ [](last.op \in CopyOps /\ byte_size(last.dst) /= byte_size(last.src)
          => last.res = "Panic" /\ last.calls = <<>>)
  /\ [][last'.op \in CopyOps /\ byte_size(last'.dst) /= byte_size(last'.src)
          => bufs' = bufs]_vars

C9_Witness ==
  /\ last.op = "[T]::copy_from"
  /\ byte_size(last.dst) /= byte_size(last.src)
  /\ head_addr(last.dst) /= head_addr(last.src)
  /\ memory_type(last.dst) = "PageLocked" /\ memory_type(last.src) = "Device"
  /\ last.res = "Panic"

\* C10: a copy whose destination and source report the same head address
\* panics and leaves the destination unchanged, at every copy entry point.
C10_SameHeadAddrPanics ==
  /\ [](last.op \in CopyOps /\ head_addr(last.dst) = head_addr(last.src)
          => last.res = "Panic")
  /\ [][last'.op \in CopyOps /\ head_addr(last'.dst) = head_addr(last'.src)
          => bufs' = bufs]_vars

\* C14: a copy_from on a (destination kind, source kind) pairing the copy
\* engine does not support returns an error value to the caller, does not
\* panic, and leaves the destination unchanged.
UnsupportedPairing(call) ==
  /\ byte_size(call.dst) = byte_size(call.src)
  /\ \/ /\ call.op = "MemoryMut::copy_from"
        /\ ~(memory_type(call.dst) = "Host" /\ memory_type(call.src) = "Host")
     \/ /\ call.op = "copy_to_host"
        /\ head_addr(call.dst) /= head_addr(call.src)
        /\ memory_type(call.src) = "Array"

C14_UnsupportedPairingIsErr ==
  /\ [](UnsupportedPairing(last) => last.res = "Err")
  /\ [][UnsupportedPairing(last') => bufs' = bufs]_vars

\* C15: a page-locked buffer or an Array leaves its variable only through
\* its Drop, which issues its release call (cuMemFreeHost, cuArrayDestroy)
\* exactly once and completes without a panic also when the release call
\* fails (the failure is logged); no other operation issues a release call.
Count(calls, name) == Cardinality({i \in 1..Len(calls) : calls[i] = name})
ReleaseCall(kind) == IF kind = "PageLocked" THEN "cuMemFreeHost" ELSE "cuArrayDestroy"
DropOp(kind) == IF kind = "PageLocked" THEN "PageLockedMemory::drop" ELSE "Array::drop"

C15_ReleasedOnceOnDrop ==
  /\ [][\A x \in Slots :
          bufs[x].kind \in {"PageLocked", "Array"} /\ bufs'[x] /= bufs[x]
            /\ bufs'[x].kind /= bufs[x].kind
            => /\ last'.op = DropOp(bufs[x].kind) /\ last'.dst.addr = x
               /\ bufs'[x] = NoBuf]_vars
  /\ [][last'.op \in {"PageLockedMemory::drop", "Array::drop"}
          => LET x == last'.dst.addr IN
             /\ last'.res = "Ok"
             /\ last'.op = DropOp(bufs[x].kind)
             /\ Count(last'.calls, ReleaseCall(bufs[x].kind)) = 1
             /\ bufs'[x] = NoBuf]_vars
  /\ [](Count(last.calls, "cuMemFreeHost") + Count(last.calls, "cuArrayDestroy") > 0
          => last.op \in {"PageLockedMemory::drop", "Array::drop"})

\* a drop whose release call failed
C15_Witness ==
  /\ last.op = "PageLockedMemory::drop" /\ last.native = "logged"
  /\ last.res = "Ok" /\ bufs[last.dst.addr] = NoBuf

\* C13: in a copy from Device memory into host-addressable memory, when both
\* sides carry a context and the two differ the copy panics and issues no
\* transfer; a copy that returns has used a context carried by one of the
\* sides, made it current before the transfer and popped it after; and the
\* native stack and the slot of the thread are afterwards what they were.
HostAddressable == {"Host", "Registered", "PageLocked"}
Transfers == {"cuMemcpyDtoH_v2", "cuMemcpy"}
DeviceToHost(call) ==
  /\ call.op \in {"copy_to_host", "[T]::copy_from"}
  /\ memory_type(call.dst) \in HostAddressable
  /\ memory_type(call.src) = "Device"

C13_CopyUsesOwningContext ==
  /\ [](DeviceToHost(last)
          /\ get_context(last.dst) /= Null /\ get_context(last.src) /= Null
          /\ get_context(last.dst) /= get_context(last.src)
          => /\ last.res = "Panic"
             /\ \A i \in 1..Len(last.calls) : last.calls[i] \notin Transfers)
  /\ [](DeviceToHost(last) /\ last.res = "Ok"
          => /\ last.ctx \in {get_context(last.dst), get_context(last.src)} \ {Null}
             /\ \E call \in Transfers : last.calls = contexted(<<call>>))
  /\ [][DeviceToHost(last') => stack' = stack /\ slot' = slot]_vars

\* the second copy of a round trip has returned
TripDone == last.res = "Ok" /\ last.dst.addr = "c" /\ last.src.addr = "b"
AllEqual(x, y) ==
  /\ bufs[x].len = bufs[y].len /\ bufs[x].len >= 1
  /\ \E v \in Val : bufs[x].data = Fill(bufs[x].len, v)
                      /\ bufs[y].data = Fill(bufs[y].len, v)

\* C11: for every pair of kinds (K1, K2) among Host, PageLocked and Device
\* and every N >= 1: after a K1 buffer was filled with V, copied into a K2
\* buffer of N elements and that one copied into a fresh K1 buffer of N
\* elements, every element of the fresh buffer is V.
C11_LinearRoundTrip ==
  TripDone /\ bufs["b"].kind \in Linear => AllEqual("a", "c")

C11_Witness ==
  /\ TripDone /\ last.op = "[T]::copy_from"
  /\ bufs["a"].kind = "Host" /\ bufs["b"].kind = "Device" /\ bufs["c"].kind = "Host"
  /\ bufs["c"].len = MaxLen
  /\ AllEqual("a", "c")

\* C12: for every Dimension shape: after a page-locked or device buffer of
\* dim.len() elements all equal to V was copied into a fresh Array of that
\* Dimension and the Array into a fresh linear buffer of the same element
\* count, every element of that buffer is V.
C12_ArrayRoundTrip ==
  TripDone /\ bufs["b"].kind = "Array" => AllEqual("a", "c")
====
